---- MODULE Spec2Model ----
(***************************************************************************)
(* State-machine model of the queueing-system simulation engine SMOSystem  *)
(* (src/src/models/system.py).  Virtual time, intervals and service times  *)
(* are integers; float('inf') is the constant Inf, larger than every       *)
(* reachable time.                                                         *)
(***************************************************************************)
EXTENDS Integers, Sequences, FiniteSets, TLC

\* ------------------------------------------------------------------ bounds
\* configured numbers of sources: 2 .. MaxSources
MaxSources == 3
\* configured numbers of devices: 1 .. MaxDevices
MaxDevices == 2
\* configured buffer sizes: 1 .. MaxBufferSize
MaxBufferSize == 2
\* config['simulation']['min_requests']
MinRequests == 2
\* the ceiling max_iterations of run_realization, scaled down
MaxIterations == 8
\* draws of uniform_distribution(min_interval, max_interval)
MinInterval == 1
MaxInterval == 2
\* draws of exponential_distribution(lambda): 0 .. MaxService
MaxService == 1

\* the sweep has 1 .. MaxSweep values
MaxSweep == 2
\* fixed-point unit of tau and lambda: the float 1.0
TauUnit == 8
SimKMin == 7
SimMaxSteps == 2
\* the 4 places of SimulationSystem's buffer
SimBufferSize == 4

\* float('inf')
Inf == 1000000

ServiceTimes == 0..MaxService
\* 1.0, and the config value of device lambda used throughout
DefaultLambda == TauUnit

VARIABLES
    pc,               \* "constructed", "running", "stopped", "error", ...
    buffer_capacity,  \* self.buffer_capacity
    min_requests,     \* self.min_requests
    sources,          \* self.sources: id -> Source fields
    devices,          \* self.devices: id -> Device fields
    current_time,     \* self.current_time
    INDBUF,           \* number of occupied slots, as counted by the code
    BUFT,             \* slot -> stored arrival time
    BUFN,             \* slot -> source id, -1 for an empty slot
    KOTK,             \* total rejection counter
    TOG,              \* source id -> cumulative wait
    current_packet,   \* active packet, -1 when unset
    packet_empty,
    device_pointer,
    iteration,        \* loop counter of run_realization
    event,            \* event_data of the last transition applied
    service_lambda,   \* Device.service_lambda, the same for every device
    tau_range,        \* self.tau_range: min, max, step
    current_tau,      \* self.current_tau
    next_tau,         \* run_simulation's local current_tau
    realization_results,  \* self.realization_results
    params,           \* Source.params, the same for every source
    sim,              \* the SimulationSystem instance of main.py
    ctl               \* self.step_controller, and the engine's position in a pass

sweep_vars == <<params, service_lambda, tau_range, current_tau, next_tau,
                realization_results>>

\* the values uniform_distribution(min_interval, max_interval) can return
Intervals == params.min_interval..params.max_interval

smo_vars == <<pc, buffer_capacity, min_requests, sources, devices, current_time,
              INDBUF, BUFT, BUFN, KOTK, TOG, current_packet, packet_empty,
              device_pointer, iteration, event>>

vars == <<smo_vars, sweep_vars, sim, ctl>>

SourceIds == DOMAIN sources
DeviceIds == DOMAIN devices
Slots == 0..(buffer_capacity - 1)

Min(S) == CHOOSE x \in S : \A y \in S : x <= y

\* sum(f[x] for x in S)
RECURSIVE SumOver(_, _)
SumOver(f, S) ==
    IF S = {} THEN 0
    ELSE LET x == CHOOSE y \in S : TRUE IN f[x] + SumOver(f, S \ {x})

NewSource == [generated_count |-> 0, processed_count |-> 0, rejected_count |-> 0,
              total_wait_time |-> 0, next_arrival_time |-> 0]

NewDevice == [is_busy |-> FALSE, current_source |-> -1, processed_count |-> 0,
              finish_time |-> Inf]

NoEvent == [event_type |-> "none", source |-> -1, device |-> -1,
            buffer_position |-> -1, rejected_source |-> -1, arrival_time |-> -1,
            wait_time |-> 0, old_packet |-> -1]

\* ------------------------------------------------------------ disciplines

\* find_free_device: the first device that is not busy, -1 for None
\* a device choice that always takes the first device
find_free_device_first == Min(DeviceIds)

find_free_device ==
    IF \E d \in DeviceIds : ~devices[d].is_busy
    THEN Min({d \in DeviceIds : ~devices[d].is_busy})
    ELSE -1

\* find_device_to_free: the first device with the minimum finish time
\* (devices[0] when every finish time is infinite)
find_device_to_free ==
    IF \E d \in DeviceIds : devices[d].finish_time < Inf
    THEN LET m == Min({devices[d].finish_time : d \in DeviceIds})
         IN  Min({d \in DeviceIds : devices[d].finish_time = m})
    ELSE 0

\* boos_block: the event type, 1..N for an arrival of source N-1, N+1 for a
\* device completion
boos_block ==
    LET next_arrival == Min({sources[s].next_arrival_time : s \in SourceIds})
        arrival_source_id ==
            Min({s \in SourceIds : sources[s].next_arrival_time = next_arrival})
        next_device_free == Min({devices[d].finish_time : d \in DeviceIds})
    IN  IF next_arrival <= next_device_free
        THEN arrival_source_id + 1
        ELSE Cardinality(SourceIds) + 1

\* find_victim_for_rejection: candidates sorted (stably) by (source_id + 1,
\* BUFT[i]) ascending, the first one's slot; 0 when there is no candidate
find_victim_for_rejection ==
    LET occupied == {i \in Slots : BUFN[i] # -1}
        Before(i, j) == \/ BUFN[i] + 1 < BUFN[j] + 1
                        \/ BUFN[i] = BUFN[j] /\ BUFT[i] < BUFT[j]
                        \/ BUFN[i] = BUFN[j] /\ BUFT[i] = BUFT[j] /\ i <= j
    IN  IF occupied = {} THEN 0
        ELSE CHOOSE i \in occupied : \A j \in occupied : Before(i, j)

\* select_new_packet that takes source 0 whatever the buffer holds
select_new_packet_zero ==
    LET available_sources == {BUFN[i] : i \in {j \in Slots : BUFN[j] # -1}}
    IN  IF available_sources # {} THEN <<0, FALSE>> ELSE <<-1, TRUE>>

\* select_new_packet: <<current_packet, packet_empty>> after the call
select_new_packet ==
    LET available_sources == {BUFN[i] : i \in {j \in Slots : BUFN[j] # -1}}
    IN  IF available_sources # {}
        THEN <<(IF 0 \in available_sources THEN 0 ELSE 1), FALSE>>
        ELSE <<-1, TRUE>>

\* select_request_from_buffer that chooses a new packet on every call
select_request_from_buffer_reselect ==
    LET second == select_new_packet
        hit2 == {i \in Slots : BUFN[i] = second[1]}
    IN  IF hit2 # {} THEN <<Min(hit2), second[1], second[2]>>
        ELSE <<-1, second[1], second[2]>>

\* select_request_from_buffer: <<index, current_packet, packet_empty>> after
\* the call; index -1 when nothing is selected
select_request_from_buffer ==
    LET first == IF current_packet = -1 \/ packet_empty
                 THEN select_new_packet
                 ELSE <<current_packet, packet_empty>>
        hit1 == {i \in Slots : BUFN[i] = first[1]}
        second == select_new_packet
        hit2 == {i \in Slots : BUFN[i] = second[1]}
    IN  IF hit1 # {} THEN <<Min(hit1), first[1], FALSE>>
        ELSE IF hit2 # {} THEN <<Min(hit2), second[1], second[2]>>
        ELSE <<-1, second[1], second[2]>>

\* the stopping condition with any() in place of all()
AnyGenerated == \E s \in SourceIds : sources[s].generated_count >= min_requests

\* run_realization's stopping condition
AllGenerated == \A s \in SourceIds : sources[s].generated_count >= min_requests

\* the loop condition that lets the pass after the ceiling start
LoopCondition_inclusive == ~AllGenerated /\ iteration <= MaxIterations

\* run_realization's loop condition
LoopCondition == ~AllGenerated /\ iteration < MaxIterations

\* no SimulationSystem has been constructed
NoSim == [pc |-> "none"]

\* StepModeController.__init__; replay, entry and reference are used where a
\* pass is made twice from the same state (once without notifications, once
\* with them); phase, pending, prompt and last_command are the
\* position of the engine within a pass of run_realization's loop: the
\* notifications it still has to make before it goes on, whether it waits in
\* _show_control_prompt, and the last command read there
NewCtl ==
    [is_step_mode |-> FALSE,
     breakpoints |-> {},
     current_step |-> 0,
     event_history |-> <<>>,
     phase |-> "loop",
     pending |-> <<>>,
     prompt |-> FALSE,
     last_command |-> "none",
     replay |-> "off",
     entry |-> <<>>,
     reference |-> <<>>]

\* ------------------------------------------------------------------ Init
\* SMOSystem.__init__ / initialize_system: the configuration is read, the
\* sources and devices are constructed; the buffer exists from
\* initialize_realization on.
Init ==
    /\ pc = "constructed"
    /\ buffer_capacity \in 1..MaxBufferSize
    /\ min_requests = MinRequests
    /\ \E n \in 2..MaxSources : sources = [s \in 0..(n - 1) |-> NewSource]
    /\ \E m \in 1..MaxDevices : devices = [d \in 0..(m - 1) |-> NewDevice]
    /\ current_time = 0
    /\ INDBUF = 0
    /\ BUFT = <<>>
    /\ BUFN = <<>>
    /\ KOTK = 0
    /\ TOG = <<>>
    /\ current_packet = -1
    /\ packet_empty = TRUE
    /\ device_pointer = 0
    /\ iteration = 0
    /\ event = NoEvent
    /\ params = [min_interval |-> MinInterval, max_interval |-> MaxInterval]
    /\ service_lambda = DefaultLambda
    /\ tau_range = [min |-> TauUnit, max |-> TauUnit, step |-> TauUnit]
    /\ current_tau = tau_range.min
    /\ next_tau = 0
    /\ realization_results = <<>>
    /\ sim = NoSim
    /\ ctl = NewCtl

\* ---------------------------------------------------------------- actions

\* initialize_realization, the devices as they are left: not reset
reset_devices_kept == devices

\* initialize_realization, the reset of the devices
reset_devices == [d \in DeviceIds |-> NewDevice]

\* initialize_realization: every field it assigns
reset_realization ==
    /\ current_time' = 0
    /\ \E first \in [SourceIds -> Intervals] :
         sources' = [s \in SourceIds |->
                        [NewSource EXCEPT !.next_arrival_time = first[s]]]
    /\ devices' = reset_devices
    /\ INDBUF' = 0
    /\ BUFT' = [i \in Slots |-> 0]
    /\ BUFN' = [i \in Slots |-> -1]
    /\ KOTK' = 0
    /\ TOG' = [s \in SourceIds |-> 0]
    /\ current_packet' = -1
    /\ packet_empty' = TRUE
    /\ device_pointer' = 0
    /\ iteration' = 0
    /\ event' = NoEvent

\* initialize_realization, called first by run_realization
initialize_realization ==
    /\ pc = "constructed"
    /\ pc' = "running"
    /\ reset_realization
    /\ UNCHANGED <<buffer_capacity, min_requests, sweep_vars, sim, ctl>>

\* Device.generate_service_time: the draws of
\* exponential_distribution(service_lambda), -ln(1 - u) / lambda
generate_service_time ==
    {(e * TauUnit) \div service_lambda : e \in ServiceTimes}

\* a next arrival scheduled at the interval alone
next_arrival_at_interval(t, interval) == interval

\* bms32_block, bms12_block and bms11_block, the next arrival of the source
\* whose request arrived at time t: current_time + generate_interval()
next_arrival_at(t, interval) == t + interval

\* the finish time without the current time added
finish_at_relative(t, service_time) == service_time

\* bms32_block and bms31_block, the finish time of a service of length
\* service_time started at time t
finish_at(t, service_time) == t + service_time

\* bms32_block: direct service on the free device, at time t
bms32_block(s, d, t) ==
    /\ service_lambda # 0
    /\ \E service_time \in generate_service_time, interval \in Intervals :
         /\ devices' = [devices EXCEPT
                ![d] = [is_busy |-> TRUE, current_source |-> s,
                        processed_count |-> @.processed_count + 1,
                        finish_time |-> finish_at(t, service_time)]]
         /\ sources' = [sources EXCEPT
                ![s] = [@ EXCEPT !.processed_count = @ + 1,
                                 !.generated_count = @ + 1,
                                 !.next_arrival_time = next_arrival_at(t, interval)]]
    /\ event' = [NoEvent EXCEPT !.event_type = "device_start", !.source = s,
                                !.device = d, !.arrival_time = t,
                                !.old_packet = current_packet]
    /\ UNCHANGED <<INDBUF, BUFT, BUFN, KOTK, TOG, current_packet, packet_empty>>

\* the search of bms12_block that keeps the last empty slot it sees
write_position_last ==
    LET empty == {i \in Slots : BUFN[i] = -1}
    IN  IF empty # {} THEN CHOOSE i \in empty : \A j \in empty : j <= i ELSE -1

\* bms12_block, the search of the lowest-indexed empty slot: -1 when none
write_position ==
    LET empty == {i \in Slots : BUFN[i] = -1}
    IN  IF empty # {} THEN Min(empty) ELSE -1

\* bms12_block's write that leaves the counter as it is
bms12_write_uncounted(s) ==
    IF write_position >= 0
    THEN <<[BUFT EXCEPT ![write_position] = sources[s].next_arrival_time],
           [BUFN EXCEPT ![write_position] = s],
           INDBUF>>
    ELSE <<BUFT, BUFN, INDBUF>>

\* bms12_block, the write: <<BUFT, BUFN, INDBUF>> after source s is written
bms12_write(s) ==
    IF write_position >= 0
    THEN <<[BUFT EXCEPT ![write_position] = sources[s].next_arrival_time],
           [BUFN EXCEPT ![write_position] = s],
           INDBUF + 1>>
    ELSE <<BUFT, BUFN, INDBUF>>

\* bms12_block: write into the buffer, then regenerate the source
bms12_block(s, t) ==
    /\ BUFT' = bms12_write(s)[1]
    /\ BUFN' = bms12_write(s)[2]
    /\ INDBUF' = bms12_write(s)[3]
    /\ \E interval \in Intervals :
         sources' = [sources EXCEPT
            ![s] = [@ EXCEPT !.generated_count = @ + 1,
                             !.next_arrival_time = next_arrival_at(t, interval)]]
    /\ event' = [NoEvent EXCEPT !.event_type = "buffer_write", !.source = s,
                                !.buffer_position = write_position,
                                !.arrival_time = sources[s].next_arrival_time,
                                !.old_packet = current_packet]
    /\ UNCHANGED <<devices, KOTK, TOG, current_packet, packet_empty>>

\* bms11_block, the counters: the source whose rejected_count is incremented
\* when source s arrives and the request in slot victim_index is knocked out
bms11_rejected(s, victim_index) == s

\* bms11_block's replacement that keeps the victim's arrival time
bms11_write_time_kept(s, victim_index) ==
    <<BUFT, [BUFN EXCEPT ![victim_index] = s], INDBUF>>

\* bms11_block's replacement counted as one more occupied slot
bms11_write_counted(s, victim_index) ==
    <<[BUFT EXCEPT ![victim_index] = sources[s].next_arrival_time],
      [BUFN EXCEPT ![victim_index] = s],
      INDBUF + 1>>

\* bms11_block, the replacement: <<BUFT, BUFN, INDBUF>> after the request of
\* source s has replaced the one in slot victim_index
bms11_write(s, victim_index) ==
    <<[BUFT EXCEPT ![victim_index] = sources[s].next_arrival_time],
      [BUFN EXCEPT ![victim_index] = s],
      INDBUF>>

\* bms11_block: rejection with knockout of the victim
bms11_block(s, t) ==
    LET victim_index == find_victim_for_rejection
        victim_source_id == BUFN[victim_index]
        charged == bms11_rejected(s, victim_index)
    IN  /\ victim_index \in Slots
        /\ KOTK' = KOTK + 1
        /\ BUFT' = bms11_write(s, victim_index)[1]
        /\ BUFN' = bms11_write(s, victim_index)[2]
        /\ INDBUF' = bms11_write(s, victim_index)[3]
        /\ \E interval \in Intervals :
             LET counted == [sources EXCEPT
                    ![charged] = [@ EXCEPT !.rejected_count = @ + 1]]
             IN  sources' = [counted EXCEPT
                    ![s] = [@ EXCEPT !.generated_count = @ + 1,
                                     !.next_arrival_time = next_arrival_at(t, interval)]]
        /\ event' = [NoEvent EXCEPT !.event_type = "buffer_reject", !.source = s,
                                    !.rejected_source = victim_source_id,
                                    !.buffer_position = victim_index,
                                    !.arrival_time = sources[s].next_arrival_time,
                                    !.old_packet = current_packet]
        /\ UNCHANGED <<devices, TOG, current_packet, packet_empty>>

\* bas_block: the three branches of an arrival of source s at time t
bas_block(s, t) ==
    LET free_device == find_free_device
    IN  IF free_device # -1 THEN bms32_block(s, free_device, t)
        ELSE IF INDBUF < buffer_capacity THEN bms12_block(s, t)
        ELSE bms11_block(s, t)

\* remove_from_buffer that leaves the counter as it is
remove_from_buffer_uncounted(index) ==
    IF 0 <= index /\ index < buffer_capacity
    THEN <<[BUFT EXCEPT ![index] = 0], [BUFN EXCEPT ![index] = -1], INDBUF>>
    ELSE <<BUFT, BUFN, INDBUF>>

\* remove_from_buffer: <<BUFT, BUFN, INDBUF>> after the call
remove_from_buffer(index) ==
    IF 0 <= index /\ index < buffer_capacity
    THEN <<[BUFT EXCEPT ![index] = 0], [BUFN EXCEPT ![index] = -1],
           (IF INDBUF - 1 > 0 THEN INDBUF - 1 ELSE 0)>>
    ELSE <<BUFT, BUFN, INDBUF>>

\* the wait with its operands exchanged
wait_of_exchanged(t, arrival_time) == arrival_time - t

\* bms31_block, the wait of a request that arrived at arrival_time and is
\* taken into service at time t
wait_of(t, arrival_time) == t - arrival_time

\* bms31_block: selection from the buffer for device d at time t; the device
\* was marked not busy by bas3_block
bms31_block(d, t) ==
    LET sel == select_request_from_buffer
        selected_index == sel[1]
    IN  /\ current_packet' = sel[2]
        /\ packet_empty' = sel[3]
        /\ IF selected_index >= 0
           THEN LET source_id == BUFN[selected_index]
                    arrival_time == BUFT[selected_index]
                    wait_time == wait_of(t, arrival_time)
                    removed == remove_from_buffer(selected_index)
                IN  /\ sources' = [sources EXCEPT
                          ![source_id] = [@ EXCEPT !.total_wait_time = @ + wait_time,
                                                   !.processed_count = @ + 1]]
                    /\ TOG' = [TOG EXCEPT ![source_id] = @ + wait_time]
                    /\ \E service_time \in generate_service_time :
                         devices' = [devices EXCEPT
                            ![d] = [is_busy |-> TRUE, current_source |-> source_id,
                                    processed_count |-> @.processed_count + 1,
                                    finish_time |-> finish_at(t, service_time)]]
                    /\ BUFT' = removed[1]
                    /\ BUFN' = removed[2]
                    /\ INDBUF' = removed[3]
                    /\ event' = [NoEvent EXCEPT
                                    !.event_type = "buffer_select",
                                    !.source = source_id, !.device = d,
                                    !.buffer_position = selected_index,
                                    !.arrival_time = arrival_time,
                                    !.wait_time = wait_time,
                                    !.old_packet = current_packet]
           ELSE /\ devices' = [devices EXCEPT
                      ![d] = [@ EXCEPT !.is_busy = FALSE, !.current_source = -1]]
                /\ event' = [NoEvent EXCEPT !.event_type = "device_free",
                                            !.device = d,
                                            !.old_packet = current_packet]
                /\ UNCHANGED <<sources, TOG, BUFT, BUFN, INDBUF>>
        /\ UNCHANGED KOTK

\* bas3_block: completion of device d at time t
bas3_block(d, t) ==
    IF INDBUF > 0
    THEN bms31_block(d, t)
    ELSE /\ devices' = [devices EXCEPT
               ![d] = [@ EXCEPT !.is_busy = FALSE, !.current_source = -1,
                                !.finish_time = Inf]]
         /\ event' = [NoEvent EXCEPT !.event_type = "device_free", !.device = d,
                                     !.old_packet = current_packet]
         /\ UNCHANGED <<sources, INDBUF, BUFT, BUFN, KOTK, TOG, current_packet,
                        packet_empty>>

\* one pass of run_realization's loop whose event is an arrival
Arrival ==
    /\ pc = "running"
    /\ LoopCondition
    /\ boos_block <= Cardinality(SourceIds)
    /\ LET source_id == boos_block - 1
           t == sources[source_id].next_arrival_time
       IN  /\ current_time' = t
           /\ bas_block(source_id, t)
    /\ iteration' = iteration + 1
    /\ UNCHANGED <<pc, buffer_capacity, min_requests, device_pointer, sweep_vars, sim, ctl>>

\* one pass of run_realization's loop whose event is a device completion
Completion ==
    /\ pc = "running"
    /\ LoopCondition
    /\ boos_block = Cardinality(SourceIds) + 1
    /\ LET d == find_device_to_free
           t == devices[d].finish_time
       IN  /\ current_time' = t
           /\ bas3_block(d, t)
    /\ iteration' = iteration + 1
    /\ UNCHANGED <<pc, buffer_capacity, min_requests, device_pointer, sweep_vars, sim, ctl>>

\* the loop of run_realization ends and calculate_results is returned
Stop ==
    /\ pc = "running"
    /\ ~LoopCondition
    /\ pc' = "stopped"
    /\ UNCHANGED <<buffer_capacity, min_requests, sources, devices, current_time,
                   INDBUF, BUFT, BUFN, KOTK, TOG, current_packet, packet_empty,
                   device_pointer, iteration, event, sweep_vars, sim, ctl>>

Next == initialize_realization \/ Arrival \/ Completion \/ Stop

Spec == Init /\ [][Next]_vars

\* ------------------------------------------------------------- the sweep

\* a quotient of two counters, 0 when the divisor is 0
Ratio(n, d) == IF d > 0 THEN <<n, d>> ELSE <<0, 1>>

\* _get_system_state: the snapshot of the system
get_system_state ==
    [time |-> current_time,
     buffer_state |-> BUFN,
     buffer_size |-> INDBUF,
     buffer_capacity |-> buffer_capacity,
     devices_state |-> [d \in DeviceIds |->
                          IF devices[d].is_busy /\ devices[d].current_source # -1
                          THEN devices[d].current_source ELSE -1],
     next_arrivals |-> [s \in SourceIds |-> sources[s].next_arrival_time],
     devices_processed |-> [d \in DeviceIds |-> devices[d].processed_count],
     total_rejected |-> KOTK,
     current_packet |-> current_packet,
     tau |-> current_tau]

\* a 'rejected' entry derived from the other two counters
source_rejected_derived(s) ==
    sources[s].generated_count - sources[s].processed_count

\* calculate_results, the 'rejected' entry of source s
source_rejected(s) == sources[s].rejected_count

\* calculate_results: the result record of the realization
calculate_results ==
    LET total_requests ==
            SumOver([s \in SourceIds |-> sources[s].generated_count], SourceIds)
        total_processed ==
            SumOver([s \in SourceIds |-> sources[s].processed_count], SourceIds)
    IN  [tau |-> current_tau,
         system_stats |-> [total_requests |-> total_requests,
                           total_processed |-> total_processed,
                           total_rejected |-> KOTK,
                           total_reject_prob |-> Ratio(KOTK, total_requests)],
         sources_stats |-> [s \in SourceIds |->
             [source_id |-> s,
              source_name |-> s + 1,
              total |-> sources[s].generated_count,
              processed |-> sources[s].processed_count,
              rejected |-> source_rejected(s),
              avg_wait_time |-> Ratio(sources[s].total_wait_time,
                                      sources[s].processed_count)]],
         devices_stats |-> [d \in DeviceIds |->
             [device_id |-> d,
              device_name |-> d + 1,
              processed |-> devices[d].processed_count,
              utilization |-> devices[d].processed_count > 0]],
         realization_data |-> get_system_state]

\* the float sum a + b: the exact sum or a neighbouring value, as the
\* rounding of the addition decides; rounding is monotone, so the sum never
\* falls on the other side of a, and a + 0.0 is a
float_add(a, b) ==
    {r \in {a + b - 1, a + b, a + b + 1} :
        /\ b >= 0 => r >= a
        /\ b <= 0 => r <= a}

\* the configurations of the sweep: two sources, one device, one slot,
\* equal interval limits, min_requests within or beyond the ceiling's reach,
\* tau from 1.0 in steps of 1.0 up to a maximum on or off the grid
SweepInit ==
    /\ pc = "constructed"
    /\ buffer_capacity = 1
    /\ min_requests \in {MinRequests, MaxIterations}
    /\ sources = [s \in 0..1 |-> NewSource]
    /\ devices = [d \in 0..0 |-> NewDevice]
    /\ current_time = 0
    /\ INDBUF = 0
    /\ BUFT = <<>>
    /\ BUFN = <<>>
    /\ KOTK = 0
    /\ TOG = <<>>
    /\ current_packet = -1
    /\ packet_empty = TRUE
    /\ device_pointer = 0
    /\ iteration = 0
    /\ event = NoEvent
    /\ params = [min_interval |-> MinInterval, max_interval |-> MinInterval]
    /\ service_lambda = DefaultLambda
    /\ \E k \in 0..(MaxSweep - 1), off \in {0, TauUnit \div 2} :
         tau_range = [min |-> TauUnit, max |-> TauUnit + k * TauUnit + off,
                      step |-> TauUnit]
    /\ current_tau = tau_range.min
    /\ next_tau = 0
    /\ realization_results = <<>>
    /\ sim = NoSim
    /\ ctl = NewCtl

\* run_simulation up to its loop
run_simulation ==
    /\ pc = "constructed"
    /\ pc' = "sweep"
    /\ realization_results' = <<>>
    /\ next_tau' = tau_range.min
    /\ UNCHANGED <<buffer_capacity, min_requests, sources, devices, current_time,
                   INDBUF, BUFT, BUFN, KOTK, TOG, current_packet, packet_empty,
                   device_pointer, iteration, event, params, service_lambda,
                   tau_range, current_tau, sim, ctl>>

\* run_simulation's loop test succeeds: run_realization starts with
\* initialize_realization
sweep_realization ==
    /\ pc = "sweep"
    /\ next_tau <= tau_range.max
    /\ current_tau' = next_tau
    /\ pc' = "running"
    /\ reset_realization
    /\ UNCHANGED <<buffer_capacity, min_requests, params, service_lambda,
                   tau_range, next_tau, realization_results, sim, ctl>>

\* run_simulation that keeps only the results of realizations that met the
\* stopping condition
append_result_clean_only ==
    /\ pc = "stopped"
    /\ realization_results' =
           IF AllGenerated THEN Append(realization_results, calculate_results)
           ELSE realization_results
    /\ next_tau' \in float_add(next_tau, tau_range.step)
    /\ pc' = "sweep"
    /\ UNCHANGED <<buffer_capacity, min_requests, sources, devices, current_time,
                   INDBUF, BUFT, BUFN, KOTK, TOG, current_packet, packet_empty,
                   device_pointer, iteration, event, params, service_lambda,
                   tau_range, current_tau, sim, ctl>>

\* run_simulation whose results all refer to one shared record, rewritten by
\* every realization
append_result_shared ==
    /\ pc = "stopped"
    /\ realization_results' =
           [i \in 1..(Len(realization_results) + 1) |-> calculate_results]
    /\ next_tau' \in float_add(next_tau, tau_range.step)
    /\ pc' = "sweep"
    /\ UNCHANGED <<buffer_capacity, min_requests, sources, devices, current_time,
                   INDBUF, BUFT, BUFN, KOTK, TOG, current_packet, packet_empty,
                   device_pointer, iteration, event, params, service_lambda,
                   tau_range, current_tau, sim, ctl>>

\* run_realization has returned: the result is appended, tau advances
append_result ==
    /\ pc = "stopped"
    /\ realization_results' = Append(realization_results, calculate_results)
    /\ next_tau' \in float_add(next_tau, tau_range.step)
    /\ pc' = "sweep"
    /\ UNCHANGED <<buffer_capacity, min_requests, sources, devices, current_time,
                   INDBUF, BUFT, BUFN, KOTK, TOG, current_packet, packet_empty,
                   device_pointer, iteration, event, params, service_lambda,
                   tau_range, current_tau, sim, ctl>>

\* run_simulation's loop test fails: the results are returned
sweep_return ==
    /\ pc = "sweep"
    /\ next_tau > tau_range.max
    /\ pc' = "finished"
    /\ UNCHANGED <<buffer_capacity, min_requests, sources, devices, current_time,
                   INDBUF, BUFT, BUFN, KOTK, TOG, current_packet, packet_empty,
                   device_pointer, iteration, event, sweep_vars, sim, ctl>>

SweepNext ==
    \/ run_simulation \/ sweep_realization \/ Arrival \/ Completion \/ Stop
    \/ append_result \/ sweep_return

SweepSpec == SweepInit /\ [][SweepNext]_vars

\* the tau ranges of the sweep: min 1.0, max 1.0 or 2.0, and a step that is
\* 1.0, the smallest float step, 0.0 or negative; initialize_system stores
\* whatever device.tau_range holds
RangeInit ==
    /\ pc = "constructed"
    /\ buffer_capacity = 1
    /\ min_requests = MinRequests
    /\ sources = [s \in 0..1 |-> NewSource]
    /\ devices = [d \in 0..0 |-> NewDevice]
    /\ current_time = 0
    /\ INDBUF = 0
    /\ BUFT = <<>>
    /\ BUFN = <<>>
    /\ KOTK = 0
    /\ TOG = <<>>
    /\ current_packet = -1
    /\ packet_empty = TRUE
    /\ device_pointer = 0
    /\ iteration = 0
    /\ event = NoEvent
    /\ params = [min_interval |-> MinInterval, max_interval |-> MinInterval]
    /\ service_lambda = DefaultLambda
    /\ \E k \in 0..1, step \in {-TauUnit, -1, 0, 1, TauUnit} :
         tau_range = [min |-> TauUnit, max |-> TauUnit + k * TauUnit,
                      step |-> step]
    /\ current_tau = tau_range.min
    /\ next_tau = 0
    /\ realization_results = <<>>
    /\ sim = NoSim
    /\ ctl = NewCtl

\* run_simulation, followed for at most MaxSweep + 1 passes of its loop
RangeNext ==
    \/ run_simulation
    \/ Len(realization_results) <= MaxSweep /\ sweep_realization
    \/ Arrival \/ Completion \/ Stop
    \/ append_result \/ sweep_return

RangeSpec == RangeInit /\ [][RangeNext]_vars

\* -------------------------------------------- SimulationSystem (main.py)

\* uniform_random(TAY1, TAY2)
uniform_random == MinInterval..MaxInterval

\* exponential_random: -1.0 / mu * log(random() + 1e-10); the logarithm is
\* positive when random() > 1 - 1e-10, and the result is then negative
exponential_random == {-1} \cup ServiceTimes

Max(S) == CHOOSE x \in S : \A y \in S : x >= y

\* SimulationSystem.__init__ / initialize_system; sequences are 1-based, so
\* TPOST[1] is the code's TPOST[0]; buffer holds source numbers, 0 when free
NewSim ==
    [pc |-> "constructed",
     KMIN |-> SimKMin,
     max_steps |-> SimMaxSteps,
     KOL |-> 0,
     KOTK |-> 0,
     KOBR |-> 0,
     TOSV |-> <<Inf, Inf>>,
     TOG |-> <<0, 0>>,
     INDBUF |-> 0,
     buffer |-> [i \in 1..SimBufferSize |-> 0],
     TPOST |-> <<0, 0>>,
     current_time |-> 0,
     source_stats |-> [i \in 1..2 |-> [generated |-> 0, rejected |-> 0, processed |-> 0]],
     device_pointer |-> 0,
     step |-> 0,
     last_event |-> [time |-> -1, event_type |-> 0]]

\* find_next_event with the completions listed before the arrivals
find_next_event_departures_first(sm) ==
    LET events == <<[time |-> sm.TOSV[1], event_type |-> 3],
                    [time |-> sm.TOSV[2], event_type |-> 4],
                    [time |-> sm.TPOST[1], event_type |-> 1],
                    [time |-> sm.TPOST[2], event_type |-> 2]>>
        IsActive(e) == e.time # Inf
        active_events == SelectSeq(events, IsActive)
        least == Min({active_events[i].time : i \in 1..Len(active_events)})
    IN  IF active_events = <<>> THEN [time |-> -1, event_type |-> 0]
        ELSE active_events[Min({i \in 1..Len(active_events) :
                                    active_events[i].time = least})]

\* find_next_event: min(active_events, key=time), the first of the least
\* ones in list order; event_type 0 stands for (None, None, None)
find_next_event(sm) ==
    LET events == <<[time |-> sm.TPOST[1], event_type |-> 1],
                    [time |-> sm.TPOST[2], event_type |-> 2],
                    [time |-> sm.TOSV[1], event_type |-> 3],
                    [time |-> sm.TOSV[2], event_type |-> 4]>>
        IsActive(e) == e.time # Inf
        active_events == SelectSeq(events, IsActive)
        least == Min({active_events[i].time : i \in 1..Len(active_events)})
    IN  IF active_events = <<>> THEN [time |-> -1, event_type |-> 0]
        ELSE active_events[Min({i \in 1..Len(active_events) :
                                    active_events[i].time = least})]

\* add_to_buffer that puts the request in front of the waiting ones
add_to_buffer_front(sm, source_num) ==
    IF sm.INDBUF < SimBufferSize
    THEN <<[sm EXCEPT !.buffer = [i \in 1..SimBufferSize |->
                                     IF i = 1 THEN source_num ELSE sm.buffer[i - 1]],
                      !.INDBUF = @ + 1], TRUE>>
    ELSE <<sm, FALSE>>

\* add_to_buffer: <<sm after the call, the returned flag>>
add_to_buffer(sm, source_num) ==
    IF sm.INDBUF < SimBufferSize
    THEN <<[sm EXCEPT !.buffer[sm.INDBUF + 1] = source_num,
                      !.INDBUF = @ + 1], TRUE>>
    ELSE <<sm, FALSE>>

\* the shift of remove_lowest_priority_from_buffer and remove_from_buffer:
\* the entries after idx move one place down, the last occupied place is freed
shift_out(sm, idx) ==
    [sm EXCEPT !.buffer = [i \in 1..SimBufferSize |->
                              IF i = sm.INDBUF THEN 0
                              ELSE IF i >= idx /\ i < sm.INDBUF THEN sm.buffer[i + 1]
                              ELSE sm.buffer[i]],
               !.INDBUF = @ - 1]

\* the removal that takes the newest request of the largest source number
remove_newest_lowest_priority_from_buffer(sm) ==
    IF sm.INDBUF = 0 THEN <<sm, 0>>
    ELSE LET max_source == Max({sm.buffer[i] : i \in 1..sm.INDBUF})
             max_idx == Max({i \in 1..SimBufferSize : sm.buffer[i] = max_source})
         IN  <<shift_out(sm, max_idx), sm.buffer[max_idx]>>

\* remove_lowest_priority_from_buffer: <<sm after the call, removed source>>
remove_lowest_priority_from_buffer(sm) ==
    IF sm.INDBUF = 0 THEN <<sm, 0>>
    ELSE LET max_source == Max({sm.buffer[i] : i \in 1..sm.INDBUF})
             max_idx == Min({i \in 1..SimBufferSize : sm.buffer[i] = max_source})
         IN  <<shift_out(sm, max_idx), sm.buffer[max_idx]>>

\* the choice of the request that stands first in the buffer
get_first_from_buffer(sm) ==
    IF sm.INDBUF = 0 THEN 0 ELSE sm.buffer[1]

\* get_highest_priority_from_buffer
get_highest_priority_from_buffer(sm) ==
    IF sm.INDBUF = 0 THEN 0 ELSE Min({sm.buffer[i] : i \in 1..sm.INDBUF})

\* a removal that takes the first request of the buffer, whatever its source
sim_remove_from_buffer_first(sm, source_num) ==
    IF sm.INDBUF = 0 THEN sm ELSE shift_out(sm, 1)

\* SimulationSystem.remove_from_buffer
sim_remove_from_buffer(sm, source_num) ==
    LET found == {i \in 1..sm.INDBUF : sm.buffer[i] = source_num}
    IN  IF sm.INDBUF = 0 \/ found = {} THEN sm ELSE shift_out(sm, Min(found))

\* process_arrival of source source_num with the two draws
process_arrival(sm, source_num, service_time, next_arrival) ==
    LET counted == [sm EXCEPT !.KOL = @ + 1,
                              !.source_stats[source_num].generated = @ + 1]
        free == {i \in 1..2 : counted.TOSV[i] = Inf}
        served == [counted EXCEPT
                      !.TOSV[Min(free)] = counted.current_time + service_time,
                      !.source_stats[source_num].processed = @ + 1,
                      !.KOBR = @ + 1]
        added == add_to_buffer(counted, source_num)
        removed == remove_lowest_priority_from_buffer(counted)
        rejected == IF removed[2] > 0
                    THEN [removed[1] EXCEPT
                             !.source_stats[removed[2]].rejected = @ + 1,
                             !.KOTK = @ + 1]
                    ELSE removed[1]
        placed == IF free # {} THEN served
                  ELSE IF added[2] THEN added[1]
                  ELSE add_to_buffer(rejected, source_num)[1]
    IN  [placed EXCEPT !.TPOST[source_num] = placed.current_time + next_arrival]

\* process_departure of device device_num (1-based) with the draw
process_departure(sm, device_num, service_time) ==
    IF sm.INDBUF > 0
    THEN LET source_num == get_highest_priority_from_buffer(sm)
             taken == sim_remove_from_buffer(sm, source_num)
         IN  IF source_num > 0
             THEN [taken EXCEPT !.TOSV[device_num] = sm.current_time + service_time,
                                !.source_stats[source_num].processed = @ + 1,
                                !.KOBR = @ + 1]
             ELSE sm
    ELSE [sm EXCEPT !.TOSV[device_num] = Inf]

\* the body shared by the loops of run_step_by_step and run_automatic once an
\* event was found: the clock is set and the event is processed
process_next_event(sm, service_time, next_arrival) ==
    LET next_event == find_next_event(sm)
        at == [sm EXCEPT !.current_time = next_event.time,
                         !.last_event = next_event]
    IN  IF next_event.event_type \in {1, 2}
        THEN process_arrival(at, next_event.event_type, service_time, next_arrival)
        ELSE process_departure(at, next_event.event_type - 2, service_time)

\* SimulationSystem("config.yaml"): the SMOSystem variables are not used
SimInit ==
    /\ sim = NewSim
    /\ ctl = NewCtl
    /\ pc = "unused"
    /\ buffer_capacity = 0
    /\ min_requests = 0
    /\ sources = <<>>
    /\ devices = <<>>
    /\ current_time = 0
    /\ INDBUF = 0
    /\ BUFT = <<>>
    /\ BUFN = <<>>
    /\ KOTK = 0
    /\ TOG = <<>>
    /\ current_packet = -1
    /\ packet_empty = TRUE
    /\ device_pointer = 0
    /\ iteration = 0
    /\ event = NoEvent
    /\ params = [min_interval |-> MinInterval, max_interval |-> MaxInterval]
    /\ service_lambda = DefaultLambda
    /\ tau_range = [min |-> TauUnit, max |-> TauUnit, step |-> TauUnit]
    /\ current_tau = tau_range.min
    /\ next_tau = 0
    /\ realization_results = <<>>

\* run_step_by_step up to its loop: generate_first_requests
generate_first_requests ==
    /\ sim.pc = "constructed"
    /\ \E first \in [1..2 -> uniform_random] :
         sim' = [sim EXCEPT !.pc = "stepping", !.TPOST = <<first[1], first[2]>>]
    /\ UNCHANGED <<smo_vars, sweep_vars, ctl>>

\* one pass of run_step_by_step's loop
run_step_by_step ==
    /\ sim.pc = "stepping"
    /\ sim.KOL < sim.KMIN /\ sim.step < sim.max_steps
    /\ find_next_event(sim).event_type # 0
    /\ \E service_time \in exponential_random, next_arrival \in uniform_random :
         sim' = process_next_event([sim EXCEPT !.step = @ + 1],
                                   service_time, next_arrival)
    /\ UNCHANGED <<smo_vars, sweep_vars, ctl>>

\* run_simulation after run_step_by_step returned: the answer to the prompt
\* decides between run_automatic and the end
run_simulation_continue ==
    /\ sim.pc = "stepping"
    /\ ~(sim.KOL < sim.KMIN /\ sim.step < sim.max_steps)
    /\ \E response \in {"y", "n"} :
         sim' = [sim EXCEPT !.pc =
                    IF sim.KOL < sim.KMIN /\ sim.step >= sim.max_steps
                       /\ response = "y"
                    THEN "automatic" ELSE "finished"]
    /\ UNCHANGED <<smo_vars, sweep_vars, ctl>>

\* one pass of run_automatic's loop
run_automatic ==
    /\ sim.pc = "automatic"
    /\ sim.KOL < sim.KMIN
    /\ find_next_event(sim).event_type # 0
    /\ \E service_time \in exponential_random, next_arrival \in uniform_random :
         sim' = process_next_event(sim, service_time, next_arrival)
    /\ UNCHANGED <<smo_vars, sweep_vars, ctl>>

\* run_automatic's loop ends, print_final_stats
run_automatic_end ==
    /\ sim.pc = "automatic"
    /\ ~(sim.KOL < sim.KMIN)
    /\ sim' = [sim EXCEPT !.pc = "finished"]
    /\ UNCHANGED <<smo_vars, sweep_vars, ctl>>

SimNext ==
    \/ generate_first_requests \/ run_step_by_step \/ run_simulation_continue
    \/ run_automatic \/ run_automatic_end

\* the two engines of the repository, each started from its own constructor
EnginesInit == Init \/ SimInit

EnginesNext == Next \/ SimNext

EnginesSpec == EnginesInit /\ [][EnginesNext]_vars

\* ------------------------------- SimulationSystem, its methods called

\* SimulationSystem("config.yaml"), whose process_arrival and
\* process_departure are then called in any order
CallsInit ==
    /\ sim = [NewSim EXCEPT !.pc = "called"]
    /\ ctl = NewCtl
    /\ pc = "unused"
    /\ buffer_capacity = 0
    /\ min_requests = 0
    /\ sources = <<>>
    /\ devices = <<>>
    /\ current_time = 0
    /\ INDBUF = 0
    /\ BUFT = <<>>
    /\ BUFN = <<>>
    /\ KOTK = 0
    /\ TOG = <<>>
    /\ current_packet = -1
    /\ packet_empty = TRUE
    /\ device_pointer = 0
    /\ iteration = 0
    /\ event = NoEvent
    /\ params = [min_interval |-> MinInterval, max_interval |-> MaxInterval]
    /\ service_lambda = DefaultLambda
    /\ tau_range = [min |-> TauUnit, max |-> TauUnit, step |-> TauUnit]
    /\ current_tau = tau_range.min
    /\ next_tau = 0
    /\ realization_results = <<>>

\* process_arrival(source_num), for either source; last_event keeps the call
call_process_arrival ==
    /\ sim.pc = "called"
    /\ sim.KOL < sim.KMIN
    /\ \E source_num \in 1..2, service_time \in exponential_random,
          next_arrival \in uniform_random :
         sim' = process_arrival(
                    [sim EXCEPT !.last_event = [time |-> sim.current_time,
                                                event_type |-> source_num]],
                    source_num, service_time, next_arrival)
    /\ UNCHANGED <<smo_vars, sweep_vars, ctl>>

\* process_departure(device_num), for a device that serves a request
call_process_departure ==
    /\ sim.pc = "called"
    /\ \E device_num \in 1..2, service_time \in exponential_random :
         /\ sim.TOSV[device_num] # Inf
         /\ sim' = process_departure(
                       [sim EXCEPT !.last_event = [time |-> sim.current_time,
                                                   event_type |-> device_num + 2]],
                       device_num, service_time)
    /\ UNCHANGED <<smo_vars, sweep_vars, ctl>>

CallsNext == call_process_arrival \/ call_process_departure

CallsSpec == CallsInit /\ [][CallsNext]_vars

\* ------------------------------------------------------------- step mode

\* the keys of StepModeController.event_types
EventTypes ==
    {"arrival", "buffer_write", "buffer_reject", "device_start", "device_finish",
     "buffer_select", "packet_change"}

\* the breakpoint_events given to enable_step_mode: none (every event type),
\* or a list of some of them
BreakpointSets == {EventTypes, {"arrival"}, {"buffer_select", "packet_change"}}

\* check_breakpoint that never looks at the breakpoint set
check_breakpoint_any(c, event_type) ==
    IF ~c.is_step_mode THEN <<c, FALSE>>
    ELSE <<[c EXCEPT !.current_step = @ + 1,
                     !.event_history = Append(@, [step |-> c.current_step + 1,
                                                  type |-> event_type,
                                                  time |-> current_time])],
           TRUE>>

\* check_breakpoint: <<the controller after the call, should_break>>
check_breakpoint(c, event_type) ==
    IF ~c.is_step_mode THEN <<c, FALSE>>
    ELSE IF event_type \in c.breakpoints
    THEN <<[c EXCEPT !.current_step = @ + 1,
                     !.event_history = Append(@, [step |-> c.current_step + 1,
                                                  type |-> event_type,
                                                  time |-> current_time])],
           TRUE>>
    ELSE <<c, FALSE>>

\* _show_control_prompt with 'q' read as the next-step command
control_command_no_exit(c, command) ==
    IF command = "c"
    THEN <<[c EXCEPT !.is_step_mode = FALSE, !.prompt = FALSE,
                     !.last_command = command], "running">>
    ELSE <<[c EXCEPT !.prompt = FALSE, !.last_command = command], "running">>

\* _show_control_prompt, one command read: <<the controller, pc>> after it;
\* '' and 'n' go on, 'c' disables step mode and goes on, 'q' is exit(0)
control_command(c, command) ==
    IF command = "c"
    THEN <<[c EXCEPT !.is_step_mode = FALSE, !.prompt = FALSE,
                     !.last_command = command], "running">>
    ELSE IF command = "q"
    THEN <<[c EXCEPT !.last_command = command], "exited">>
    ELSE <<[c EXCEPT !.prompt = FALSE, !.last_command = command], "running">>

\* the engine is at the loop test of run_realization
AtLoop == ctl.pending = <<>> /\ ~ctl.prompt /\ ctl.phase \in {"loop", "post"}

\* select_new_packet's second call in select_request_from_buffer reports a
\* packet_change: the current packet has no request left and the new packet
\* differs from it (the first call is made with current_packet = -1 only,
\* and reports nothing)
packet_change_notified ==
    LET hit1 == {i \in Slots : BUFN[i] = current_packet}
    IN  /\ INDBUF > 0
        /\ current_packet # -1
        /\ ~packet_empty
        /\ hit1 = {}
        /\ select_new_packet[1] # current_packet

\* a run under step mode: two sources, one device, one slot and a single
\* value of tau
StepInit ==
    /\ pc = "constructed"
    /\ buffer_capacity = 1
    /\ min_requests = MinRequests
    /\ sources = [s \in 0..1 |-> NewSource]
    /\ devices = [d \in 0..0 |-> NewDevice]
    /\ current_time = 0
    /\ INDBUF = 0
    /\ BUFT = <<>>
    /\ BUFN = <<>>
    /\ KOTK = 0
    /\ TOG = <<>>
    /\ current_packet = -1
    /\ packet_empty = TRUE
    /\ device_pointer = 0
    /\ iteration = 0
    /\ event = NoEvent
    /\ params = [min_interval |-> MinInterval, max_interval |-> MaxInterval]
    /\ service_lambda = DefaultLambda
    /\ tau_range = [min |-> TauUnit, max |-> TauUnit, step |-> TauUnit]
    /\ current_tau = tau_range.min
    /\ next_tau = 0
    /\ realization_results = <<>>
    /\ sim = NoSim
    /\ ctl = NewCtl

\* SMOSystem.enable_step_mode(breakpoint_events), before run_simulation
enable_step_mode ==
    /\ pc = "constructed"
    /\ ~ctl.is_step_mode
    /\ \E breakpoint_events \in BreakpointSets :
         ctl' = [ctl EXCEPT !.is_step_mode = TRUE, !.breakpoints = breakpoint_events]
    /\ UNCHANGED <<smo_vars, sweep_vars, sim>>

\* run_realization's loop up to process_event's first notification: the
\* iteration is counted, the event is chosen and the clock is set
run_realization_pass ==
    /\ pc = "running"
    /\ AtLoop
    /\ LoopCondition
    /\ iteration' = iteration + 1
    /\ IF boos_block <= Cardinality(SourceIds)
       THEN /\ current_time' = sources[boos_block - 1].next_arrival_time
            /\ ctl' = [ctl EXCEPT !.phase = "pre", !.pending = <<"arrival">>]
       ELSE /\ current_time' = devices[find_device_to_free].finish_time
            /\ ctl' = [ctl EXCEPT !.phase = "pre", !.pending = <<"device_finish">>]
    /\ UNCHANGED <<pc, buffer_capacity, min_requests, sources, devices, INDBUF,
                   BUFT, BUFN, KOTK, TOG, current_packet, packet_empty,
                   device_pointer, event, sweep_vars, sim>>

\* step_controller.wait_for_step(event_type, event_data) for the next
\* notification of the pass: the engine goes on, or waits at the prompt
wait_for_step ==
    /\ pc = "running"
    /\ ctl.pending # <<>>
    /\ ~ctl.prompt
    /\ LET checked == check_breakpoint(ctl, Head(ctl.pending))
       IN  ctl' = [checked[1] EXCEPT !.pending = Tail(ctl.pending),
                                     !.prompt = checked[2]]
    /\ UNCHANGED <<smo_vars, sweep_vars, sim>>

\* _show_control_prompt reads a command (an unknown command shows the prompt
\* again and changes nothing)
show_control_prompt ==
    /\ pc = "running"
    /\ ctl.prompt
    /\ \E command \in {"", "c", "q"} :
         /\ ctl' = control_command(ctl, command)[1]
         /\ pc' = control_command(ctl, command)[2]
    /\ UNCHANGED <<buffer_capacity, min_requests, sources, devices, current_time,
                   INDBUF, BUFT, BUFN, KOTK, TOG, current_packet, packet_empty,
                   device_pointer, iteration, event, sweep_vars, sim>>

\* process_event after the 'arrival' notification: bas_block up to the
\* notification of its branch
bas_block_step ==
    /\ pc = "running"
    /\ ctl.phase = "pre" /\ ctl.pending = <<>> /\ ~ctl.prompt
    /\ boos_block <= Cardinality(SourceIds)
    /\ bas_block(boos_block - 1, sources[boos_block - 1].next_arrival_time)
    /\ ctl' = [ctl EXCEPT !.phase = "post", !.pending = <<event'.event_type>>]
    /\ UNCHANGED <<pc, buffer_capacity, min_requests, current_time, iteration,
                   device_pointer, sweep_vars, sim>>

\* process_event after the 'device_finish' notification: bas3_block up to its
\* next notification, which is packet_change (made inside select_new_packet,
\* with the device already marked idle and the packet already changed) or the
\* ones at the end of bms31_block
bas3_block_step ==
    /\ pc = "running"
    /\ ctl.phase = "pre" /\ ctl.pending = <<>> /\ ~ctl.prompt
    /\ boos_block > Cardinality(SourceIds)
    /\ LET d == find_device_to_free
       IN  IF packet_change_notified
           THEN /\ devices' = [devices EXCEPT
                      ![d] = [@ EXCEPT !.is_busy = FALSE, !.current_source = -1]]
                /\ current_packet' = select_new_packet[1]
                /\ packet_empty' = select_new_packet[2]
                /\ ctl' = [ctl EXCEPT !.phase = "mid",
                                      !.pending = <<"packet_change">>]
                /\ UNCHANGED <<sources, INDBUF, BUFT, BUFN, KOTK, TOG, event>>
           ELSE /\ bas3_block(d, current_time)
                /\ ctl' = [ctl EXCEPT
                      !.phase = "post",
                      !.pending = IF event'.event_type = "buffer_select"
                                  THEN <<"buffer_select", "device_start">>
                                  ELSE <<>>]
    /\ UNCHANGED <<pc, buffer_capacity, min_requests, current_time, iteration,
                   device_pointer, sweep_vars, sim>>

\* a stop at packet_change after which the rest of bms31_block is not made
bms31_block_dropped ==
    /\ pc = "running"
    /\ ctl.phase = "mid" /\ ctl.pending = <<>> /\ ~ctl.prompt
    /\ ctl' = [ctl EXCEPT !.phase = "post"]
    /\ UNCHANGED <<smo_vars, sweep_vars, sim>>

\* select_request_from_buffer and bms31_block after the packet_change
\* notification
bms31_block_resume ==
    /\ pc = "running"
    /\ ctl.phase = "mid" /\ ctl.pending = <<>> /\ ~ctl.prompt
    /\ bms31_block(find_device_to_free, current_time)
    /\ ctl' = [ctl EXCEPT
          !.phase = "post",
          !.pending = IF event'.event_type = "buffer_select"
                      THEN <<"buffer_select", "device_start">>
                      ELSE <<>>]
    /\ UNCHANGED <<pc, buffer_capacity, min_requests, current_time, iteration,
                   device_pointer, sweep_vars, sim>>

\* run_realization's loop test fails while the engine is at the loop test
run_realization_return == AtLoop /\ Stop

StepNext ==
    \/ enable_step_mode \/ run_simulation \/ sweep_realization
    \/ run_realization_pass \/ wait_for_step \/ show_control_prompt
    \/ bas_block_step \/ bas3_block_step \/ bms31_block_resume
    \/ run_realization_return \/ append_result \/ sweep_return

StepSpec == StepInit /\ [][StepNext]_vars

\* ------------------------------------------- the same pass, made twice

\* what a pass of run_realization's loop reads and writes
EngineState ==
    [sources |-> sources, devices |-> devices, current_time |-> current_time,
     INDBUF |-> INDBUF, BUFT |-> BUFT, BUFN |-> BUFN, KOTK |-> KOTK, TOG |-> TOG,
     current_packet |-> current_packet, packet_empty |-> packet_empty,
     iteration |-> iteration, event |-> event]

\* StepInit, with each pass of the loop to be made twice
ObserverInit ==
    /\ pc = "constructed"
    /\ buffer_capacity = 1
    /\ min_requests = MinRequests
    /\ sources = [s \in 0..1 |-> NewSource]
    /\ devices = [d \in 0..0 |-> NewDevice]
    /\ current_time = 0
    /\ INDBUF = 0
    /\ BUFT = <<>>
    /\ BUFN = <<>>
    /\ KOTK = 0
    /\ TOG = <<>>
    /\ current_packet = -1
    /\ packet_empty = TRUE
    /\ device_pointer = 0
    /\ iteration = 0
    /\ event = NoEvent
    /\ params = [min_interval |-> MinInterval, max_interval |-> MaxInterval]
    /\ service_lambda = DefaultLambda
    /\ tau_range = [min |-> TauUnit, max |-> TauUnit, step |-> TauUnit]
    /\ current_tau = tau_range.min
    /\ next_tau = 0
    /\ realization_results = <<>>
    /\ sim = NoSim
    /\ ctl = [NewCtl EXCEPT !.replay = "idle"]

\* the engine is at the loop test with a pass to make: the state is kept
reference_begin ==
    /\ pc = "running"
    /\ AtLoop
    /\ LoopCondition
    /\ ctl.replay = "idle"
    /\ ctl' = [ctl EXCEPT !.replay = "reference", !.entry = EngineState]
    /\ UNCHANGED <<smo_vars, sweep_vars, sim>>

\* the pass as the engine makes it with step mode disabled: every
\* wait_for_step returns at once
reference_pass ==
    /\ ctl.replay = "reference"
    /\ iteration = ctl.entry.iteration
    /\ Arrival \/ Completion

\* the outcome of the pass is kept and the engine is put back to the state the
\* pass started from, to make the pass again under the controller
observed_begin ==
    /\ pc = "running"
    /\ ctl.replay = "reference"
    /\ iteration = ctl.entry.iteration + 1
    /\ ctl' = [ctl EXCEPT !.replay = "observed", !.reference = EngineState]
    /\ sources' = ctl.entry.sources
    /\ devices' = ctl.entry.devices
    /\ current_time' = ctl.entry.current_time
    /\ INDBUF' = ctl.entry.INDBUF
    /\ BUFT' = ctl.entry.BUFT
    /\ BUFN' = ctl.entry.BUFN
    /\ KOTK' = ctl.entry.KOTK
    /\ TOG' = ctl.entry.TOG
    /\ current_packet' = ctl.entry.current_packet
    /\ packet_empty' = ctl.entry.packet_empty
    /\ iteration' = ctl.entry.iteration
    /\ event' = ctl.entry.event
    /\ UNCHANGED <<pc, buffer_capacity, min_requests, device_pointer, sweep_vars, sim>>

\* the pass under the controller: process_event with its notifications, each
\* prompt answered with a command to go on ('', 'n' or 'c')
observed_pass ==
    /\ ctl.replay = "observed"
    /\ \/ iteration = ctl.entry.iteration /\ run_realization_pass
       \/ wait_for_step
       \/ show_control_prompt /\ pc' = "running"
       \/ bas_block_step
       \/ bas3_block_step
       \/ bms31_block_resume

\* the pass under the controller is over
observed_end ==
    /\ pc = "running"
    /\ AtLoop
    /\ ctl.replay = "observed"
    /\ iteration = ctl.reference.iteration
    /\ ctl' = [ctl EXCEPT !.replay = "idle", !.entry = <<>>, !.reference = <<>>]
    /\ UNCHANGED <<smo_vars, sweep_vars, sim>>

\* enable_step_mode(breakpoint_events) is called with a list of event kinds
ObserverNext ==
    \/ enable_step_mode /\ ctl'.breakpoints # EventTypes
    \/ run_simulation \/ sweep_realization
    \/ reference_begin \/ reference_pass \/ observed_begin
    \/ observed_pass \/ observed_end
    \/ ctl.replay = "idle" /\ run_realization_return
    \/ append_result \/ sweep_return

ObserverSpec == ObserverInit /\ [][ObserverNext]_vars

\* ------------------------------------------------------------ termination

\* configurations under which the stopping condition may be out of reach:
\* min_requests beyond the ceiling, interval limits of 0 (virtual time stands
\* still), or a third source (whose buffered requests are never selected)
TermInit ==
    /\ pc = "constructed"
    /\ buffer_capacity = 1
    /\ min_requests \in {MinRequests, MaxIterations}
    /\ \E n \in 2..MaxSources : sources = [s \in 0..(n - 1) |-> NewSource]
    /\ devices = [d \in 0..0 |-> NewDevice]
    /\ current_time = 0
    /\ INDBUF = 0
    /\ BUFT = <<>>
    /\ BUFN = <<>>
    /\ KOTK = 0
    /\ TOG = <<>>
    /\ current_packet = -1
    /\ packet_empty = TRUE
    /\ device_pointer = 0
    /\ iteration = 0
    /\ event = NoEvent
    /\ params \in {[min_interval |-> 0, max_interval |-> 0],
                   [min_interval |-> MinInterval, max_interval |-> MaxInterval]}
    /\ service_lambda = DefaultLambda
    /\ tau_range = [min |-> TauUnit, max |-> TauUnit, step |-> TauUnit]
    /\ current_tau = tau_range.min
    /\ next_tau = 0
    /\ realization_results = <<>>
    /\ sim = NoSim
    /\ ctl = NewCtl

\* run_realization runs on: every call it makes returns (step mode is
\* disabled, so no wait for input), hence a pass that can be made is made
TermSpec == TermInit /\ [][Next]_vars /\ WF_vars(Next)

\* ------------------------------------------------- unchecked configurations

\* what initialize_system accepts without a test: a buffer of size 0 and a
\* device lambda of 0
ConfigInit ==
    /\ pc = "constructed"
    /\ \E size \in {0, 1}, lambda \in {0, DefaultLambda} :
         /\ size = 0 \/ lambda = 0
         /\ buffer_capacity = size
         /\ service_lambda = lambda
    /\ min_requests = MinRequests
    /\ \E n \in 2..MaxSources : sources = [s \in 0..(n - 1) |-> NewSource]
    /\ \E m \in 1..MaxDevices : devices = [d \in 0..(m - 1) |-> NewDevice]
    /\ current_time = 0
    /\ INDBUF = 0
    /\ BUFT = <<>>
    /\ BUFN = <<>>
    /\ KOTK = 0
    /\ TOG = <<>>
    /\ current_packet = -1
    /\ packet_empty = TRUE
    /\ device_pointer = 0
    /\ iteration = 0
    /\ event = NoEvent
    /\ params = [min_interval |-> MinInterval, max_interval |-> MaxInterval]
    /\ tau_range = [min |-> TauUnit, max |-> TauUnit, step |-> TauUnit]
    /\ current_tau = tau_range.min
    /\ next_tau = 0
    /\ realization_results = <<>>
    /\ sim = NoSim
    /\ ctl = NewCtl

\* one pass of run_realization's loop whose arrival raises: ZeroDivisionError
\* in generate_service_time (bms32_block), or IndexError at BUFN[victim_index]
\* (bms11_block); the exception leaves run_realization
arrival_raises ==
    /\ pc = "running"
    /\ LoopCondition
    /\ boos_block <= Cardinality(SourceIds)
    /\ \/ find_free_device # -1 /\ service_lambda = 0
       \/ /\ find_free_device = -1
          /\ ~(INDBUF < buffer_capacity)
          /\ find_victim_for_rejection \notin Slots
    /\ current_time' = sources[boos_block - 1].next_arrival_time
    /\ iteration' = iteration + 1
    /\ pc' = "error"
    /\ UNCHANGED <<buffer_capacity, min_requests, sources, devices, INDBUF, BUFT,
                   BUFN, KOTK, TOG, current_packet, packet_empty, device_pointer,
                   event, sweep_vars, sim, ctl>>

ConfigNext ==
    initialize_realization \/ Arrival \/ Completion \/ Stop \/ arrival_raises

ConfigSpec == ConfigInit /\ [][ConfigNext]_vars

\* ------------------------------------------------------------------ claims

Started == pc # "constructed"
Occupied == {i \in Slots : BUFN[i] # -1}
Buffered(s) == Cardinality({i \in Slots : BUFN[i] = s})

\* the pass of the loop is an arrival that finds every device busy and the
\* buffer full
EvictionStep == Arrival /\ find_free_device = -1 /\ INDBUF >= buffer_capacity
\* the pass of the loop is a completion that finds the buffer non-empty
SelectionStep == Completion /\ INDBUF > 0

\* C1: after any sequence of events, for every source
\* generated = processed + rejected + (its requests in the buffer), and the
\* same for the sums over all sources.
C1_Conservation ==
    Started =>
        /\ \A s \in SourceIds :
              sources[s].generated_count =
                  sources[s].processed_count + sources[s].rejected_count + Buffered(s)
        /\ SumOver([s \in SourceIds |-> sources[s].generated_count], SourceIds) =
              SumOver([s \in SourceIds |-> sources[s].processed_count], SourceIds)
              + SumOver([s \in SourceIds |-> sources[s].rejected_count], SourceIds)
              + Cardinality(Occupied)

\* C2: on an arrival with every device busy and the buffer full, the rejected
\* counter incremented (by exactly 1) is the one of the source that owns the
\* evicted request; every other source's rejected counter is unchanged.
C2_VictimCharged ==
    [][EvictionStep =>
          \A s \in SourceIds :
             sources'[s].rejected_count =
                 sources[s].rejected_count
                 + (IF s = BUFN[find_victim_for_rejection] THEN 1 ELSE 0)]_vars

\* C3: for every full buffer the victim is a request of the lowest-priority
\* source present (largest source id), the oldest one of that source.
C3_VictimLowestPriority ==
    (Started /\ Occupied = Slots) =>
        LET v == find_victim_for_rejection
        IN  \A j \in Slots :
               /\ BUFN[j] <= BUFN[v]
               /\ BUFN[j] = BUFN[v] => BUFT[v] <= BUFT[j]

\* C4: once a packet p is active, a selection made while the buffer holds a
\* request of p takes a request of p and keeps p active; another source is
\* selected only when no request of p is buffered.
C4_PacketKept ==
    [][(SelectionStep /\ current_packet # -1
          /\ \E j \in Slots : BUFN[j] = current_packet) =>
          /\ event'.event_type = "buffer_select"
          /\ event'.source = current_packet
          /\ BUFN[event'.buffer_position] = current_packet
          /\ BUFN'[event'.buffer_position] = -1
          /\ current_packet' = current_packet]_vars

\* C4 witness: a request of the active packet 1 was selected while a request
\* of the higher-priority source 0 was buffered.
C4_Witness ==
    /\ event.event_type = "buffer_select"
    /\ event.old_packet = 1
    /\ event.source = 1
    /\ \E j \in Slots : BUFN[j] = 0

\* C5: the request selected for service is the one with the earliest arrival
\* time among the buffered requests of its source.
C5_FifoWithinSource ==
    event.event_type = "buffer_select" =>
        \A j \in Slots : BUFN[j] = event.source => event.arrival_time <= BUFT[j]

\* C6: for any number of sources, when a new packet has to be chosen and the
\* buffer is non-empty, the new packet is the lowest source id that has a
\* buffered request.
C6_NewPacketLowestId ==
    [][(SelectionStep
          /\ (current_packet = -1 \/ ~\E j \in Slots : BUFN[j] = current_packet)) =>
          current_packet' = Min({BUFN[j] : j \in Occupied})]_vars

\* C7: at every point of a realization 0 <= INDBUF <= buffer_capacity.
C7_BufferBound == 0 <= INDBUF /\ INDBUF <= buffer_capacity

\* C7 witness: an eviction has happened on a full buffer with more than one
\* slot, and the counter is at the capacity.
C7_Witness ==
    /\ event.event_type = "buffer_reject"
    /\ buffer_capacity > 1
    /\ INDBUF = buffer_capacity

\* C8: at every event boundary INDBUF equals the number of slots that hold a
\* request.
C8_CountMatchesSlots == Started => INDBUF = Cardinality(Occupied)

\* C8 witness: a request has been removed from a buffer that holds another
\* one after an eviction happened.
C8_Witness ==
    /\ event.event_type = "buffer_select"
    /\ KOTK > 0
    /\ INDBUF = 1
    /\ Cardinality(Occupied) = 1

\* C9: the virtual time never decreases from one processed event to the next.
C9_TimeMonotone == [][(Arrival \/ Completion) => current_time' >= current_time]_vars

\* C9 witness: a completion was processed at a later time than the arrival of
\* the request it took from the buffer, after several events.
C9_Witness ==
    /\ event.event_type = "buffer_select"
    /\ event.wait_time > 0
    /\ current_time > MinInterval
    /\ iteration > 3

\* C10: every wait computed when a buffered request is taken into service is
\* non-negative.
C10_WaitNonNegative == event.event_type = "buffer_select" => event.wait_time >= 0

\* C10 witness: a request was taken from the buffer with a positive wait
\* after an eviction had overwritten a slot.
C10_Witness ==
    /\ event.event_type = "buffer_select"
    /\ event.wait_time > 0
    /\ KOTK > 0

\* C11: at every event boundary and for every device, finish_time is infinite
\* if and only if the device is not busy, for any number of sources and
\* devices.
C11_FinishInfIffIdle ==
    Started => \A d \in DeviceIds :
                  (devices[d].finish_time = Inf) <=> ~devices[d].is_busy

\* every source has generated at least min_requests requests
EverySourceReached ==
    \A s \in SourceIds : sources[s].generated_count >= min_requests

\* C12: when the ceiling is not hit, no event is processed once every source
\* has generated min_requests, the loop does not stop before that, and the
\* state in which it stops was produced by the arrival that brought the last
\* source to min_requests.
C12_StopsExactly ==
    /\ []((pc = "stopped" /\ iteration < MaxIterations) => EverySourceReached)
    /\ []((Started /\ EverySourceReached) =>
             /\ event.event_type \in {"device_start", "buffer_write", "buffer_reject"}
             /\ event.source \in SourceIds
             /\ sources[event.source].generated_count = min_requests)
    /\ [][(Arrival \/ Completion) => ~EverySourceReached]_vars

\* C12 witness: a realization has stopped below the ceiling after a source
\* generated more than min_requests while the other was still behind.
C12_Witness ==
    /\ pc = "stopped"
    /\ iteration < MaxIterations
    /\ EverySourceReached
    /\ \E s \in SourceIds : sources[s].generated_count > min_requests

\* C13: a realization that ended because the iteration ceiling was reached
\* yields a result record that carries a status telling it from a clean stop.
C13_CeilingStatus ==
    (pc = "stopped" /\ iteration >= MaxIterations /\ ~EverySourceReached)
        => "status" \in DOMAIN calculate_results

\* C16: an arrival from source s at time t while at least one server is idle
\* makes one idle server busy with occupant s and finish_time = t + a drawn
\* service time, adds exactly 1 to generated_count(s) and processed_count(s),
\* schedules s's next arrival at t + a drawn interval, and leaves the buffer
\* slots, INDBUF, the rejection counters and every other server unchanged.
C16_DirectService ==
    [][(Arrival /\ \E d \in DeviceIds : ~devices[d].is_busy) =>
        LET s == boos_block - 1
            t == sources[s].next_arrival_time
        IN  /\ \E d \in DeviceIds :
                 /\ ~devices[d].is_busy
                 /\ devices'[d].is_busy
                 /\ devices'[d].current_source = s
                 /\ devices'[d].finish_time - t \in generate_service_time
                 /\ \A o \in DeviceIds \ {d} : devices'[o] = devices[o]
            /\ sources'[s].generated_count = sources[s].generated_count + 1
            /\ sources'[s].processed_count = sources[s].processed_count + 1
            /\ sources'[s].next_arrival_time - t \in Intervals
            /\ sources'[s].rejected_count = sources[s].rejected_count
            /\ \A o \in SourceIds \ {s} : sources'[o] = sources[o]
            /\ UNCHANGED <<BUFT, BUFN, INDBUF, KOTK>>]_vars

\* a direct service has just started on one server while another server is busy
\* with an earlier request
C16_Witness ==
    /\ event.event_type = "device_start"
    /\ current_time > 0
    /\ devices[event.device].is_busy
    /\ devices[event.device].current_source = event.source
    /\ \E o \in DeviceIds \ {event.device} : devices[o].is_busy

\* C17: within each realization of a sweep the service rate used to draw the
\* servers' service times is the one determined by the realization's swept
\* value tau: the rate is tau itself or its reciprocal.
C17_RateFollowsTau ==
    pc = "running" =>
        \/ service_lambda = current_tau
        \/ service_lambda * current_tau = TauUnit * TauUnit

\* C18: run_simulation produces exactly one result per sweep value min,
\* min+step, min+2*step, ... <= max, the endpoint included when it is one of
\* these values, and the returned sequence has strictly increasing tau.
C18_OneResultPerValue ==
    pc = "finished" =>
        /\ Len(realization_results) =
               ((tau_range.max - tau_range.min) \div tau_range.step) + 1
        /\ \A i, j \in 1..Len(realization_results) :
               i < j => realization_results[i].tau < realization_results[j].tau

\* the state of a realization that has processed no event yet
RealizationStart == pc = "running" /\ iteration = 0

\* C19: at the start of every realization of a sweep the state is fresh,
\* however the previous realization ended: current_time = 0, every source's
\* counters and cumulative wait are 0, every server is idle with finish_time
\* infinite and processed_count 0, the buffer is empty with INDBUF = 0, the
\* total rejection counter is 0 and the active packet is unset.
C19_FreshStart ==
    RealizationStart =>
        /\ current_time = 0
        /\ \A s \in SourceIds :
              /\ sources[s].generated_count = 0
              /\ sources[s].processed_count = 0
              /\ sources[s].rejected_count = 0
              /\ sources[s].total_wait_time = 0
              /\ TOG[s] = 0
        /\ \A d \in DeviceIds :
              /\ ~devices[d].is_busy
              /\ devices[d].current_source = -1
              /\ devices[d].finish_time = Inf
              /\ devices[d].processed_count = 0
        /\ \A i \in Slots : BUFN[i] = -1
        /\ INDBUF = 0
        /\ KOTK = 0
        /\ current_packet = -1

\* a realization starts after one that ended with a busy server, an occupied
\* slot, rejections and a set packet
C19_Witness ==
    /\ RealizationStart
    /\ Len(realization_results) >= 1
    /\ LET last == realization_results[Len(realization_results)]
       IN  /\ last.system_stats.total_rejected > 0
           /\ last.system_stats.total_processed > 0
           /\ last.realization_data.buffer_size > 0
           /\ last.realization_data.time > 0
           /\ last.realization_data.current_packet # -1
           /\ \E d \in DeviceIds : last.realization_data.devices_state[d] # -1

InvalidConfiguration == buffer_capacity <= 0 \/ service_lambda <= 0

\* C20: an invalid configuration (zero buffer capacity, non-positive service
\* rate) is rejected before any realization starts: no simulation event is
\* ever processed under it.
C20_InvalidRejected == InvalidConfiguration => event = NoEvent

\* SMOSystem: the step processes the event with the least time among the next
\* arrival times and the finish times, an arrival if one has that time (of
\* the lowest source id), otherwise the completion of the lowest device id
SmoLeastEventFirst ==
    (Arrival \/ Completion) =>
        LET least == Min({sources[s].next_arrival_time : s \in SourceIds}
                         \cup {devices[d].finish_time : d \in DeviceIds})
            arrivals == {s \in SourceIds : sources[s].next_arrival_time = least}
            completions == {d \in DeviceIds : devices[d].finish_time = least}
        IN  /\ current_time' = least
            /\ IF arrivals # {}
               THEN /\ event'.event_type \in
                          {"device_start", "buffer_write", "buffer_reject"}
                    /\ event'.source = Min(arrivals)
               ELSE /\ event'.event_type \in {"buffer_select", "device_free"}
                    /\ event'.device = Min(completions)

\* SimulationSystem: the same rule over TPOST and the finite entries of TOSV
SimLeastEventFirst ==
    (run_step_by_step \/ run_automatic) =>
        LET least == Min({sim.TPOST[i] : i \in 1..2}
                         \cup {sim.TOSV[i] : i \in 1..2})
            arrivals == {i \in 1..2 : sim.TPOST[i] = least}
            completions == {i \in 1..2 : sim.TOSV[i] = least}
        IN  /\ sim'.current_time = least
            /\ sim'.last_event.time = least
            /\ IF arrivals # {}
               THEN sim'.last_event.event_type = Min(arrivals)
               ELSE sim'.last_event.event_type = 2 + Min(completions)

\* C15: in both engines the event processed next has the minimum time among
\* all sources' next arrival times and all servers' completion times; on
\* exact ties an arrival is taken before a completion, among tied arrivals the
\* lowest source id wins, among tied completions the lowest server id wins.
C15_LeastEventFirst ==
    /\ [][SmoLeastEventFirst]_vars
    /\ [][SimLeastEventFirst]_vars

\* SimulationSystem has just processed an arrival that went to the buffer
\* while a server's completion was due at the same time
C15_Witness ==
    /\ sim.pc \in {"stepping", "automatic"}
    /\ sim.last_event.event_type \in {1, 2}
    /\ sim.current_time = sim.last_event.time
    /\ sim.INDBUF > 0
    /\ \E i \in 1..2 : sim.TOSV[i] = sim.last_event.time

\* the realization has ended at the iteration ceiling with a source still
\* below min_requests
CeilingStop ==
    pc = "stopped" /\ iteration >= MaxIterations /\ ~EverySourceReached

\* the result record r is one of a realization that ended below min_requests
CeilingResult(r) ==
    \E s \in SourceIds : r.sources_stats[s].total < min_requests

\* C21: when a realization of the sweep ends by hitting the iteration ceiling,
\* run_simulation does not fail: the step that follows appends that
\* realization's result, and while the next sweep value is within the range
\* the step after that starts the realization of that value.
C21_CeilingContinues ==
    /\ [][CeilingStop =>
            /\ Len(realization_results') = Len(realization_results) + 1
            /\ realization_results'[Len(realization_results')].tau = current_tau
            /\ CeilingResult(realization_results'[Len(realization_results')])
            /\ SubSeq(realization_results', 1, Len(realization_results))
                   = realization_results
            /\ pc' = "sweep"]_vars
    /\ [][(/\ pc = "sweep"
           /\ realization_results # <<>>
           /\ CeilingResult(realization_results[Len(realization_results)])
           /\ next_tau <= tau_range.max) =>
               (pc' = "running" /\ current_tau' = next_tau /\ iteration' = 0)]_vars

\* a realization runs after the one before it ended at the ceiling and left
\* its result
C21_Witness ==
    /\ pc = "running"
    /\ iteration > 0
    /\ Len(realization_results) >= 1
    /\ CeilingResult(realization_results[Len(realization_results)])
    /\ current_tau > realization_results[Len(realization_results)].tau

\* C22: a buffer selection that returns 'none' although INDBUF > 0 is a fatal
\* internal error that aborts the realization: the realization never goes on
\* after a completion that freed its server while requests were buffered.
C22_SelectionFailureFatal ==
    (event.event_type = "device_free" /\ INDBUF > 0) => pc = "error"

\* the fields of the realization that the event transitions write
RealizationState ==
    <<sources, devices, current_time, INDBUF, BUFT, BUFN, KOTK, TOG,
      current_packet, packet_empty, iteration>>

\* C23: when step mode is enabled and the observer answers a notification
\* with the abort command 'q', no further event transition of the current
\* realization is applied and no result for that realization is produced or
\* appended to the results sequence.
C23_AbortStops ==
    /\ [][(ctl.prompt /\ ctl'.last_command = "q") =>
            /\ pc' = "exited"
            /\ UNCHANGED RealizationState
            /\ UNCHANGED realization_results]_vars
    /\ [][pc # "exited"]_vars
    /\ [](pc = "exited" =>
            \A i \in 1..Len(realization_results) :
                realization_results[i].tau # current_tau)

\* the observer has aborted at the packet_change notification of a completion,
\* after having stepped through earlier notifications
C23_Witness ==
    /\ pc = "exited"
    /\ ctl.last_command = "q"
    /\ ctl.current_step >= 3
    /\ ctl.event_history[ctl.current_step].type = "packet_change"
    /\ INDBUF > 0
    /\ realization_results = <<>>

\* C24: a result record appended to realization_results is never changed
\* afterwards: every step, and so every later realization of the sweep,
\* leaves every field of every previously appended result unchanged.
C24_ResultsImmutable ==
    [][\A i \in 1..Len(realization_results) :
          /\ i <= Len(realization_results')
          /\ realization_results'[i] = realization_results[i]]_vars

\* a later realization has processed events and its sources, server and
\* buffer differ from what the first result recorded
C24_Witness ==
    /\ pc = "running"
    /\ iteration > 1
    /\ Len(realization_results) >= 1
    /\ LET first == realization_results[1]
       IN  /\ first.realization_data.time # current_time
           /\ first.realization_data.buffer_state # BUFN
           /\ first.system_stats.total_rejected # KOTK
           /\ \E s \in SourceIds :
                 first.sources_stats[s].total # sources[s].generated_count
           /\ \E d \in DeviceIds :
                 first.devices_stats[d].processed # devices[d].processed_count

\* C25: an arrival with every server busy and at least one empty slot writes
\* (arriving source id, arrival time = current time) into the lowest-indexed
\* empty slot, increments INDBUF by exactly 1, and leaves every other slot,
\* all servers and all rejection counters unchanged.
C25_BufferWrite ==
    [][(/\ Arrival
        /\ \A d \in DeviceIds : devices[d].is_busy
        /\ \E i \in Slots : BUFN[i] = -1) =>
        LET s == boos_block - 1
            w == Min({i \in Slots : BUFN[i] = -1})
        IN  /\ BUFN'[w] = s
            /\ BUFT'[w] = current_time'
            /\ BUFT'[w] = sources[s].next_arrival_time
            /\ INDBUF' = INDBUF + 1
            /\ \A i \in Slots \ {w} : BUFN'[i] = BUFN[i] /\ BUFT'[i] = BUFT[i]
            /\ devices' = devices
            /\ KOTK' = KOTK
            /\ \A o \in SourceIds :
                  sources'[o].rejected_count = sources[o].rejected_count]_vars

\* a request has just been written into slot 0 of a buffer that has a higher
\* slot as well, while every server is busy
C25_Witness ==
    /\ event.event_type = "buffer_write"
    /\ event.buffer_position = 0
    /\ BUFN[0] = event.source
    /\ BUFT[0] = current_time
    /\ buffer_capacity > 1
    /\ \A d \in DeviceIds : devices[d].is_busy

\* C26: an eviction (arrival with all servers busy and a full buffer)
\* overwrites exactly one slot, the one of the request it knocks out, with
\* (arriving source id, arrival time = current time), leaves INDBUF and all
\* other slots unchanged, and increases KOTK by exactly 1.
C26_EvictionWrite ==
    [][(/\ Arrival
        /\ \A d \in DeviceIds : devices[d].is_busy
        /\ \A i \in Slots : BUFN[i] # -1) =>
        LET s == boos_block - 1
        IN  /\ event'.event_type = "buffer_reject"
            /\ \E v \in Slots :
                  /\ event'.buffer_position = v
                  /\ event'.rejected_source = BUFN[v]
                  /\ BUFN'[v] = s
                  /\ BUFT'[v] = current_time'
                  /\ BUFT'[v] = sources[s].next_arrival_time
                  /\ \A i \in Slots \ {v} :
                        BUFN'[i] = BUFN[i] /\ BUFT'[i] = BUFT[i]
            /\ INDBUF' = INDBUF
            /\ KOTK' = KOTK + 1]_vars

\* an eviction has just replaced a request of another source that had arrived
\* earlier, in a buffer of more than one slot
C26_Witness ==
    /\ event.event_type = "buffer_reject"
    /\ event.rejected_source # event.source
    /\ event.buffer_position \in Slots
    /\ BUFN[event.buffer_position] = event.source
    /\ BUFT[event.buffer_position] = current_time
    /\ buffer_capacity > 1
    /\ \E i \in Slots : BUFT[i] < current_time
    /\ KOTK > 1

\* C27: for any configured number of sources, a server completion at time t
\* with a non-empty buffer ends with that server busy again (finish_time =
\* t + drawn service time), exactly one request removed from the buffer
\* (INDBUF decreased by 1, its slot empty), the wait t - arrival_time of that
\* request added to its own source's total_wait_time, and its source's and
\* the server's processed counters increased by 1.
C27_CompletionTakesRequest ==
    [][(Completion /\ INDBUF > 0) =>
        LET d == find_device_to_free
            t == devices[d].finish_time
        IN  /\ devices'[d].is_busy
            /\ devices'[d].finish_time - t \in generate_service_time
            /\ devices'[d].processed_count = devices[d].processed_count + 1
            /\ INDBUF' = INDBUF - 1
            /\ \E i \in Slots :
                  /\ BUFN[i] # -1
                  /\ BUFN'[i] = -1
                  /\ \A j \in Slots \ {i} : BUFN'[j] = BUFN[j]
                  /\ devices'[d].current_source = BUFN[i]
                  /\ sources'[BUFN[i]].total_wait_time =
                         sources[BUFN[i]].total_wait_time + (t - BUFT[i])
                  /\ sources'[BUFN[i]].processed_count =
                         sources[BUFN[i]].processed_count + 1]_vars

\* C28: whenever a source's next_arrival_time is regenerated (direct service,
\* buffer write, eviction) the new value is >= the previous value and >=
\* current_time, and every arrival adds exactly 1 to the generated counter of
\* exactly the arriving source, leaving the other sources' generated counters
\* and next arrival times unchanged.
C28_NextArrivalForward ==
    [][Arrival =>
        LET s == boos_block - 1
        IN  /\ sources'[s].next_arrival_time >= sources[s].next_arrival_time
            /\ sources'[s].next_arrival_time >= current_time'
            /\ sources'[s].generated_count = sources[s].generated_count + 1
            /\ \A o \in SourceIds \ {s} :
                  /\ sources'[o].generated_count = sources[o].generated_count
                  /\ sources'[o].next_arrival_time = sources[o].next_arrival_time]_vars

\* an eviction by a source that has arrived before, with its next arrival
\* scheduled after the current time and another source's arrival pending
C28_Witness ==
    /\ event.event_type = "buffer_reject"
    /\ sources[event.source].generated_count >= 2
    /\ current_time > 1
    /\ sources[event.source].next_arrival_time > current_time
    /\ \E o \in SourceIds \ {event.source} :
          sources[o].next_arrival_time <= sources[event.source].next_arrival_time

\* C29: run_realization always terminates: with step mode disabled it makes
\* at most the ceiling's number of passes and then returns a result, whatever
\* the configuration and the draws: the loop is left only by the return, never
\* by an exception.
C29_AlwaysReturns ==
    /\ [](iteration <= MaxIterations)
    /\ [][pc = "running" => pc' \in {"running", "stopped"}]_vars

\* under the configurations of TermInit (buffer of 1, positive lambda) the
\* realization makes at most the ceiling's number of passes and then returns,
\* also when the minimum-requests condition is out of reach or virtual time
\* stands still
TerminatesWhenValid ==
    /\ [](iteration <= MaxIterations)
    /\ [](pc = "stopped" => calculate_results.tau = current_tau)
    /\ (pc = "running" ~> pc = "stopped")

\* the realization has returned at the ceiling with virtual time still 0 and a
\* source that never arrived
ReturnedAtCeiling ==
    /\ pc = "stopped"
    /\ iteration = MaxIterations
    /\ current_time = 0
    /\ \E s \in SourceIds : sources[s].generated_count = 0

\* wait_for_step is called with the next notification of the pass
Notified == ctl.pending # <<>> /\ ~ctl.prompt /\ ctl'.pending = Tail(ctl.pending)

\* C30: with step mode enabled the engine blocks at every notification whose
\* kind is in the breakpoint set until a command is received (nothing of the
\* realization changes while it waits); after the command 'c' no later
\* notification blocks or is recorded in the event history; a notification
\* of a kind outside the breakpoint set never blocks and never advances the
\* step counter.
C30_StepBlocks ==
    /\ [][(Notified /\ ctl.is_step_mode /\ Head(ctl.pending) \in ctl.breakpoints) =>
            /\ ctl'.prompt
            /\ ctl'.current_step = ctl.current_step + 1
            /\ Len(ctl'.event_history) = Len(ctl.event_history) + 1
            /\ ctl'.event_history[Len(ctl'.event_history)].type = Head(ctl.pending)]_vars
    /\ [][ctl.prompt =>
            /\ UNCHANGED RealizationState
            /\ ctl'.pending = ctl.pending
            /\ ctl'.prompt \/ ctl'.last_command \in {"", "c"}]_vars
    /\ [](ctl.last_command = "c" => ~ctl.is_step_mode /\ ~ctl.prompt)
    /\ [][ctl.last_command = "c" =>
            /\ ctl'.event_history = ctl.event_history
            /\ ctl'.current_step = ctl.current_step]_vars
    /\ [][(Notified /\ Head(ctl.pending) \notin ctl.breakpoints) =>
            /\ ~ctl'.prompt
            /\ ctl'.current_step = ctl.current_step
            /\ ctl'.event_history = ctl.event_history]_vars

\* with the breakpoints buffer_select and packet_change: arrivals have passed
\* without a stop, the first buffer_select was recorded and answered with 'c',
\* and a later buffer_select has been notified without a stop or a record
C30_Witness ==
    /\ ctl.last_command = "c"
    /\ ctl.breakpoints = {"buffer_select", "packet_change"}
    /\ ctl.current_step = 1
    /\ Len(ctl.event_history) = 1
    /\ ctl.event_history[1].type = "buffer_select"
    /\ ctl.phase = "post" /\ ctl.pending = <<>>
    /\ event.event_type = "buffer_select"
    /\ current_time > ctl.event_history[1].time

\* the two passes took the same draws: the same interval and service time
SameDraws ==
    /\ \A s \in SourceIds :
          sources[s].next_arrival_time = ctl.reference.sources[s].next_arrival_time
    /\ \A d \in DeviceIds :
          devices[d].finish_time = ctl.reference.devices[d].finish_time

\* the simulation state of an EngineState: time, sources, devices, buffer,
\* counters and packet (the event data handed to the controller left out)
SimulationState(st) == [st EXCEPT !.event = NoEvent]

\* the pass made under the controller is over
ObservedPassOver ==
    /\ ctl.replay = "observed"
    /\ AtLoop
    /\ iteration = ctl.reference.iteration

RingChoice(pointer, idle, n) ==
    CHOOSE d \in idle : \A o \in idle : (d - pointer) % n <= (o - pointer) % n

\* C32: in both engines a request served directly on arrival is given to the
\* server the ring discipline chooses: the idle server first met from the
\* device pointer, and the pointer then advances cyclically past that server
\* (so successive direct assignments with all servers idle do not always go
\* to server 0).
C32_RingDiscipline ==
    /\ [][(Arrival /\ \E d \in DeviceIds : ~devices[d].is_busy) =>
            LET n == Cardinality(DeviceIds)
                chosen == RingChoice(device_pointer,
                                     {d \in DeviceIds : ~devices[d].is_busy}, n)
            IN  /\ devices'[chosen].is_busy
                /\ device_pointer' = (chosen + 1) % n]_vars
    /\ [][(sim.pc \in {"stepping", "automatic"}
           /\ sim'.KOL = sim.KOL + 1 /\ sim'.KOBR = sim.KOBR + 1) =>
            LET chosen == RingChoice(sim.device_pointer,
                                     {i \in 0..1 : sim.TOSV[i + 1] = Inf}, 2)
            IN  /\ sim'.TOSV[chosen + 1] # Inf
                /\ sim'.device_pointer = (chosen + 1) % 2]_vars

\* C33: at every event boundary the aggregate balance holds: the sum of
\* generated_count over the sources = the sum of processed_count over the
\* sources + KOTK + INDBUF (processed counts the requests that have started
\* service).
C33_AggregateBalance ==
    SumOver([s \in SourceIds |-> sources[s].generated_count], SourceIds)
        = SumOver([s \in SourceIds |-> sources[s].processed_count], SourceIds)
          + KOTK + INDBUF

\* a direct service, a buffer write, a knockout and a selection from the
\* buffer have all happened, and a request waits in the buffer
C33_Witness ==
    /\ pc = "running"
    /\ KOTK > 0
    /\ INDBUF > 0
    /\ \E s \in SourceIds : TOG[s] > 0
    /\ SumOver([s \in SourceIds |-> sources[s].processed_count], SourceIds) >= 3

\* C34: at every event boundary with exactly two sources the engine is
\* work-conserving: if the buffer is non-empty (INDBUF > 0) then every device
\* is busy; no device is idle while a request waits in the buffer.
C34_WorkConserving ==
    (Cardinality(SourceIds) = 2 /\ INDBUF > 0) =>
        \A d \in DeviceIds : devices[d].is_busy

\* two sources: a completion has just taken a request of source 1 from the
\* buffer while another request still waits
C34_Witness ==
    /\ Cardinality(SourceIds) = 2
    /\ event.event_type = "buffer_select"
    /\ event.source = 1
    /\ INDBUF > 0
    /\ \A d \in DeviceIds : devices[d].is_busy

\* C35: every result record is internally consistent: total_rejected (KOTK)
\* equals the sum of the per-source 'rejected' entries, total_processed equals
\* both the sum of the per-source 'processed' entries and the sum of the
\* per-device 'processed' entries, total_requests equals the sum of the
\* per-source 'total' entries, and total_rejected <= total_requests.
C35_ResultConsistent ==
    pc = "stopped" =>
        LET r == calculate_results
            Sources == DOMAIN r.sources_stats
            Devices == DOMAIN r.devices_stats
        IN  /\ r.system_stats.total_rejected
                 = SumOver([s \in Sources |-> r.sources_stats[s].rejected], Sources)
            /\ r.system_stats.total_processed
                 = SumOver([s \in Sources |-> r.sources_stats[s].processed], Sources)
            /\ r.system_stats.total_processed
                 = SumOver([d \in Devices |-> r.devices_stats[d].processed], Devices)
            /\ r.system_stats.total_requests
                 = SumOver([s \in Sources |-> r.sources_stats[s].total], Sources)
            /\ r.system_stats.total_rejected <= r.system_stats.total_requests

\* a realization has returned a record with rejections, with both devices
\* having served requests and with a request left in the buffer
C35_Witness ==
    /\ pc = "stopped"
    /\ calculate_results.system_stats.total_rejected > 0
    /\ Cardinality(DeviceIds) = 2
    /\ \A d \in DeviceIds : calculate_results.devices_stats[d].processed > 0
    /\ INDBUF > 0

\* the buffer of SimulationSystem as the sequence of its occupied places
SimQueue(sm) == [i \in 1..sm.INDBUF |-> sm.buffer[i]]

\* the sequence q without its element at place idx
WithoutPlace(q, idx) ==
    [i \in 1..(Len(q) - 1) |-> IF i < idx THEN q[i] ELSE q[i + 1]]

\* C36: in SimulationSystem, on an arrival with both servers busy and the
\* buffer full, the oldest buffered request of the largest source number
\* present is removed, the rejected counter of that request's source and KOTK
\* are each incremented by 1, and the arriving request is appended at the end
\* of the buffer.
C36_EvictLowestPriority ==
    [][(sim.pc = "called" /\ sim'.KOL = sim.KOL + 1
        /\ sim.TOSV[1] # Inf /\ sim.TOSV[2] # Inf
        /\ sim.INDBUF = SimBufferSize) =>
          LET q == SimQueue(sim)
              arriving == sim'.last_event.event_type
              largest == Max({q[i] : i \in 1..Len(q)})
              oldest == Min({i \in 1..Len(q) : q[i] = largest})
          IN  /\ SimQueue(sim') = WithoutPlace(q, oldest) \o <<arriving>>
              /\ sim'.INDBUF = SimBufferSize
              /\ sim'.KOTK = sim.KOTK + 1
              /\ sim'.source_stats[largest].rejected
                    = sim.source_stats[largest].rejected + 1
              /\ \A o \in {1, 2} \ {largest} :
                    sim'.source_stats[o].rejected = sim.source_stats[o].rejected
              /\ sim'.source_stats[arriving].generated
                    = sim.source_stats[arriving].generated + 1
              /\ sim'.KOBR = sim.KOBR
              /\ sim'.TOSV = sim.TOSV]_vars

\* source 1 arrived at the full buffer <<1, 2, 1, 2>>: the older request of
\* source 2 was removed and the arriving one stands at the end
C36_Witness ==
    /\ sim.pc = "called"
    /\ sim.last_event.event_type = 1
    /\ SimQueue(sim) = <<1, 1, 2, 1>>
    /\ sim.KOTK = 1
    /\ sim.source_stats[2].rejected = 1
    /\ sim.KOL = 7
    /\ sim.KOBR = 2

\* the number of places of the buffer of sm that hold source_num
SimBuffered(sm, source_num) ==
    Cardinality({i \in 1..SimBufferSize : sm.buffer[i] = source_num})

\* C37: in SimulationSystem, after any sequence of process_arrival and
\* process_departure calls: for each source generated = processed + rejected
\* + the number of that source's entries in the buffer; KOL, KOBR and KOTK
\* equal the sums of the per-source generated, processed and rejected
\* counters; and 0 <= INDBUF <= 4.
C37_SimConservation ==
    sim.pc = "called" =>
        /\ \A s \in {1, 2} :
              sim.source_stats[s].generated
                 = sim.source_stats[s].processed + sim.source_stats[s].rejected
                   + SimBuffered(sim, s)
        /\ sim.KOL = sim.source_stats[1].generated + sim.source_stats[2].generated
        /\ sim.KOBR = sim.source_stats[1].processed + sim.source_stats[2].processed
        /\ sim.KOTK = sim.source_stats[1].rejected + sim.source_stats[2].rejected
        /\ 0 <= sim.INDBUF /\ sim.INDBUF <= SimBufferSize

\* requests of both sources were served directly, taken from the buffer and
\* rejected, and requests of both sources wait in the buffer
C37_Witness ==
    /\ sim.pc = "called"
    /\ sim.KOTK > 0
    /\ sim.KOBR >= 3
    /\ SimBuffered(sim, 1) > 0
    /\ SimBuffered(sim, 2) > 0
    /\ sim.source_stats[2].rejected > 0

\* C38: in SimulationSystem the buffer is always a dense prefix in arrival
\* order: the places before INDBUF hold non-zero source numbers in the order
\* their requests arrived, the places from INDBUF on hold 0; a call removes at
\* most one request, leaves the others in their order and puts an arriving
\* request behind them.
C38_DensePrefix ==
    /\ [](sim.pc = "called" =>
            \A i \in 1..SimBufferSize :
               IF i <= sim.INDBUF THEN sim.buffer[i] \in {1, 2} ELSE sim.buffer[i] = 0)
    /\ [][sim.pc = "called" =>
            LET q == SimQueue(sim)
                kept == {q} \cup {WithoutPlace(q, k) : k \in 1..Len(q)}
            IN  \/ SimQueue(sim') \in kept
                \/ /\ sim'.KOL = sim.KOL + 1
                   /\ \E k \in kept :
                         SimQueue(sim') = k \o <<sim'.last_event.event_type>>]_vars

\* after a rejection and after departures have taken the requests of source
\* 1 out of the buffer, three requests of source 2 stand in its first places
C38_Witness ==
    /\ sim.pc = "called"
    /\ sim.last_event.event_type \in {3, 4}
    /\ sim.KOTK > 0
    /\ SimQueue(sim) = <<2, 2, 2>>
    /\ sim.source_stats[1].processed >= 2
    /\ sim.buffer[4] = 0

\* C39: in SimulationSystem a server completion with a non-empty buffer takes
\* into service the oldest buffered request of the lowest-numbered source
\* present and leaves the server busy; a completion with an empty buffer sets
\* that server's completion time to +infinity; hence a server is never idle
\* (TOSV = +infinity) while the buffer is non-empty.
C39_DepartureTakesFirst ==
    /\ [][(sim.pc = "called" /\ sim'.last_event.event_type \in {3, 4}
           /\ sim'.KOL = sim.KOL) =>
            LET device_num == sim'.last_event.event_type - 2
                q == SimQueue(sim)
            IN  IF sim.INDBUF > 0
                THEN LET lowest == Min({q[i] : i \in 1..Len(q)})
                         oldest == Min({i \in 1..Len(q) : q[i] = lowest})
                     IN  /\ SimQueue(sim') = WithoutPlace(q, oldest)
                         /\ sim'.TOSV[device_num] # Inf
                         /\ sim'.TOSV[device_num] - sim.current_time
                               \in exponential_random
                         /\ sim'.source_stats[lowest].processed
                               = sim.source_stats[lowest].processed + 1
                         /\ sim'.KOBR = sim.KOBR + 1
                ELSE /\ sim'.TOSV[device_num] = Inf
                     /\ sim'.INDBUF = 0
                     /\ sim'.KOBR = sim.KOBR]_vars
    /\ [](sim.pc = "called" /\ sim.INDBUF > 0 =>
            \A d \in {1, 2} : sim.TOSV[d] # Inf)

\* a completion has just taken the request of source 1 that stood behind a
\* request of source 2, which still waits; both servers are busy
C39_Witness ==
    /\ sim.pc = "called"
    /\ sim.last_event.event_type \in {3, 4}
    /\ SimQueue(sim) = <<2, 2>>
    /\ sim.source_stats[1].processed = 2
    /\ sim.source_stats[2].processed = 1
    /\ sim.KOTK = 0
    /\ sim.KOL = 5
    /\ \A d \in {1, 2} : sim.TOSV[d] # Inf

\* C40: run_simulation terminates for every tau_range with min <= max and
\* step > 0, and never returns when step <= 0 and min <= max.  The float sum
\* current_tau + step is the same every time it is taken from the same
\* current_tau, so the loop ends exactly when every pass moves current_tau
\* up; with step <= 0 the results are never returned.
C40_SweepTerminates ==
    /\ [][(pc = "stopped" /\ pc' = "sweep"
           /\ tau_range.min <= tau_range.max /\ tau_range.step > 0) =>
            next_tau' > next_tau]_vars
    /\ [](tau_range.min <= tau_range.max /\ tau_range.step <= 0 =>
            pc # "finished")

\* the half of C40 that holds: with step <= 0 no pass moves current_tau up
\* and run_simulation does not return
NeverReturnsWhenStepNotPositive ==
    /\ [][(pc = "stopped" /\ pc' = "sweep" /\ tau_range.step <= 0) =>
            next_tau' <= next_tau]_vars
    /\ [](tau_range.min <= tau_range.max /\ tau_range.step <= 0 =>
            pc # "finished" /\ (pc = "sweep" => next_tau <= tau_range.max))

\* a pass with a positive step after which current_tau is where it was, and
\* the loop goes on
AbsorbedStep ==
    /\ pc = "sweep"
    /\ tau_range.step > 0
    /\ Len(realization_results) > MaxSweep
    /\ next_tau = tau_range.min
    /\ next_tau <= tau_range.max

====
